---- MODULE Spec2Model ----
(***************************************************************************)
(* Model of models.py: the NearEarthObject / CloseApproach data model.     *)
(*                                                                         *)
(* Python strings given to the constructors are sequences of one-character *)
(* strings, so that float() can be modelled as a parser.  Strings stored   *)
(* in objects and strings produced by formatting are TLA+ strings.         *)
(* A raw constructor argument is a tagged Python value:                    *)
(*   [t |-> "str", v |-> chars]   a str                                    *)
(*   [t |-> "int", v |-> digits]  an int, given by its decimal digits      *)
(***************************************************************************)
EXTENDS Integers, Sequences, FiniteSets, TLC

VARIABLES
    neos,      \* heap of NearEarthObject instances, in construction order
    lists,     \* heap of Python list objects (the approaches collections)
    cas,       \* heap of CloseApproach instances, in construction order
    raised,    \* exception the last operation propagated to its caller ("" = none)
    returned,  \* string the last operation returned ("" when it returned no string)
    called,    \* history: the constructor call the last operation was, if it was one
    neoArgs,   \* history: the raw arguments each NearEarthObject was built from
    appended   \* history: per NearEarthObject, the approaches the linker appended

vars == <<neos, lists, cas, raised, returned, called, neoArgs, appended>>

----------------------------------------------------------------------------
(* Bounds of the model: the number of objects a run constructs (MaxCtor in *)
(* the runs that exercise the constructors on every combination of raw     *)
(* fields).                                                                *)

MaxNeos == 2
MaxCas == 2
MaxCtor == 1

----------------------------------------------------------------------------
(* Python values. *)

PyS(chars) == [t |-> "str", v |-> chars]
PyI(digits) == [t |-> "int", v |-> digits]

\* x == y for two Python values of the kinds above: an int never equals a str.
PyEq(x, y) == x.t = y.t /\ x.v = y.v

EmptyStr == PyS(<<>>)

RECURSIVE Join(_)
Join(chars) == IF chars = <<>> THEN "" ELSE Head(chars) \o Join(Tail(chars))

\* str(x): a str is itself, an int is its decimal digits.
PyStr(x) == Join(x.v)

\* An optional attribute value: Python None, or a string.
PyNone == [some |-> FALSE, v |-> ""]
Some(s) == [some |-> TRUE, v |-> s]

\* repr() of a str (no quotes or backslashes occur in the inputs) and of None.
ReprStr(s) == "'" \o s \o "'"
ReprOpt(o) == IF o.some THEN ReprStr(o.v) ELSE "None"
ReprBool(b) == IF b THEN "True" ELSE "False"

----------------------------------------------------------------------------
(* Floats.  A float is the not-a-number value or a decimal with FracDigits *)
(* fractional digits: value = (-1)^neg * m / 10^FracDigits.  The raw       *)
(* inputs carry at most FracDigits fractional digits and no exponent.      *)

FracDigits == 3

RECURSIVE Pow10(_)
Pow10(k) == IF k = 0 THEN 1 ELSE 10 * Pow10(k - 1)

FracScale == Pow10(FracDigits)

NaN == [nan |-> TRUE, neg |-> FALSE, m |-> 0]
Num(neg, m) == [nan |-> FALSE, neg |-> neg, m |-> m]

\* IEEE-754 equality, as Python's == on floats: not-a-number equals nothing.
FloatEq(x, y) == ~x.nan /\ ~y.nan /\ x.m = y.m /\ (x.neg = y.neg \/ x.m = 0)

DigitVal == [c \in {"0", "1", "2", "3", "4", "5", "6", "7", "8", "9"} |->
               CASE c = "0" -> 0 [] c = "1" -> 1 [] c = "2" -> 2 [] c = "3" -> 3
                 [] c = "4" -> 4 [] c = "5" -> 5 [] c = "6" -> 6 [] c = "7" -> 7
                 [] c = "8" -> 8 [] c = "9" -> 9]

IsDigits(s) == \A i \in 1..Len(s) : s[i] \in DOMAIN DigitVal

RECURSIVE DigitsToNat(_)
DigitsToNat(s) ==
    IF s = <<>> THEN 0
    ELSE 10 * DigitsToNat(SubSeq(s, 1, Len(s) - 1)) + DigitVal[s[Len(s)]]

RECURSIVE LStrip(_)
LStrip(s) == IF s # <<>> /\ Head(s) = " " THEN LStrip(Tail(s)) ELSE s

RECURSIVE RStrip(_)
RStrip(s) ==
    IF s # <<>> /\ s[Len(s)] = " " THEN RStrip(SubSeq(s, 1, Len(s) - 1)) ELSE s

\* Pad or cut the fractional digits to exactly FracDigits digits.
RECURSIVE PadFrac(_)
PadFrac(s) ==
    IF Len(s) >= FracDigits THEN SubSeq(s, 1, FracDigits)
    ELSE PadFrac(Append(s, "0"))

ParseError == [ok |-> FALSE, val |-> NaN]

\* float(chars): surrounding blanks are stripped, then an optional sign and a
\* decimal numeral "d+", "d+.", "d+.d+" or ".d+"; anything else is a ValueError.
ParseFloat(chars) ==
    LET s == RStrip(LStrip(chars))
        signed == s # <<>> /\ Head(s) \in {"-", "+"}
        neg == s # <<>> /\ Head(s) = "-"
        u == IF signed THEN Tail(s) ELSE s
        dots == {i \in 1..Len(u) : u[i] = "."}
        dot == IF dots = {} THEN Len(u) + 1
               ELSE CHOOSE i \in dots : \A j \in dots : i <= j
        ip == SubSeq(u, 1, dot - 1)
        fp == SubSeq(u, dot + 1, Len(u))
    IN  IF IsDigits(ip) /\ IsDigits(fp) /\ Len(ip) + Len(fp) > 0
        THEN [ok |-> TRUE,
              val |-> Num(neg, DigitsToNat(ip) * FracScale + DigitsToNat(PadFrac(fp)))]
        ELSE ParseError

\* float(x) of a Python value: an int converts exactly.
PyFloat(x) ==
    IF x.t = "int" THEN [ok |-> TRUE, val |-> Num(FALSE, DigitsToNat(x.v) * FracScale)]
    ELSE ParseFloat(x.v)

RECURSIVE ZeroPad(_, _)
ZeroPad(str, width) == IF Len(str) >= width THEN str ELSE ZeroPad("0" \o str, width)

\* format(x, ".{prec}f") for prec <= FracDigits: round to prec decimals (ties to
\* even), fixed notation; not-a-number formats as "nan".
FormatFixed(x, prec) ==
    IF x.nan THEN "nan"
    ELSE LET cut == Pow10(FracDigits - prec)
             q == x.m \div cut
             r == x.m % cut
             up == 2 * r > cut \/ (2 * r = cut /\ q % 2 = 1)
             n == IF up THEN q + 1 ELSE q
             unit == Pow10(prec)
         IN  (IF x.neg THEN "-" ELSE "")
               \o ToString(n \div unit) \o "." \o ZeroPad(ToString(n % unit), prec)

----------------------------------------------------------------------------
(* helpers.cd_to_datetime / helpers.datetime_to_str: calendar dates of the  *)
(* form "1900-Jan-01 12:00" to a datetime and back to "1900-01-01 12:00".   *)

MonthNumber == [mon \in {"Jan", "Feb", "Mar", "Apr", "May", "Jun",
                         "Jul", "Aug", "Sep", "Oct", "Nov", "Dec"} |->
                  CASE mon = "Jan" -> 1 [] mon = "Feb" -> 2 [] mon = "Mar" -> 3
                    [] mon = "Apr" -> 4 [] mon = "May" -> 5 [] mon = "Jun" -> 6
                    [] mon = "Jul" -> 7 [] mon = "Aug" -> 8 [] mon = "Sep" -> 9
                    [] mon = "Oct" -> 10 [] mon = "Nov" -> 11 [] mon = "Dec" -> 12]

NoDatetime == [year |-> 0, month |-> 0, day |-> 0, hour |-> 0, minute |-> 0, second |-> 0]

\* Parse "%Y-%b-%d %H:%M"; a string of any other shape is a ValueError.
cd_to_datetime(x) ==
    LET s == x.v
        shaped == /\ x.t = "str"
                  /\ Len(s) = 17
                  /\ s[5] = "-" /\ s[9] = "-" /\ s[12] = " " /\ s[15] = ":"
        year == SubSeq(s, 1, 4)
        mon == Join(SubSeq(s, 6, 8))
        day == SubSeq(s, 10, 11)
        hour == SubSeq(s, 13, 14)
        minute == SubSeq(s, 16, 17)
    IN  IF /\ shaped
           /\ IsDigits(year) /\ IsDigits(day) /\ IsDigits(hour) /\ IsDigits(minute)
           /\ mon \in DOMAIN MonthNumber
           /\ DigitsToNat(year) >= 1
           /\ DigitsToNat(day) \in 1..31
           /\ DigitsToNat(hour) \in 0..23
           /\ DigitsToNat(minute) \in 0..59
        THEN [ok |-> TRUE,
              val |-> [year |-> DigitsToNat(year), month |-> MonthNumber[mon],
                       day |-> DigitsToNat(day), hour |-> DigitsToNat(hour),
                       minute |-> DigitsToNat(minute), second |-> 0]]
        ELSE [ok |-> FALSE, val |-> NoDatetime]

\* Format "%Y-%m-%d %H:%M": the seconds of the datetime are not shown.
datetime_to_str(dt) ==
    ZeroPad(ToString(dt.year), 4) \o "-" \o ZeroPad(ToString(dt.month), 2) \o "-"
      \o ZeroPad(ToString(dt.day), 2) \o " " \o ZeroPad(ToString(dt.hour), 2) \o ":"
      \o ZeroPad(ToString(dt.minute), 2)

----------------------------------------------------------------------------
(* class NearEarthObject *)

\* Faulty variant of NewList: one list object shared by every instance (a
\* class-level `approaches = []`).
SharedList(heap) == 1

\* `self.approaches = []`: a list display evaluates to a new list object.
NewList(heap) == Len(heap) + 1

\* Faulty variants of NearEarthObject.__init__, each with one fault.
\* The designation taken from the name field.
NearEarthObject_init_wrongField(designation, name, diameter, hazardous, approaches) ==
    LET d == IF ~PyEq(diameter, EmptyStr) THEN PyFloat(diameter)
             ELSE [ok |-> TRUE, val |-> NaN]
    IN  [err |-> IF d.ok THEN "" ELSE "ValueError",
         obj |-> [designation |-> PyStr(name),
                  name |-> IF ~PyEq(name, EmptyStr) THEN Some(PyStr(name)) ELSE PyNone,
                  diameter |-> d.val,
                  hazardous |-> IF PyEq(hazardous, PyS(<<"Y">>)) THEN TRUE ELSE FALSE,
                  approaches |-> approaches,
                  _fullname |-> PyNone]]

\* The hazardous flag compared without regard to case.
NearEarthObject_init_anyCase(designation, name, diameter, hazardous, approaches) ==
    LET d == IF ~PyEq(diameter, EmptyStr) THEN PyFloat(diameter)
             ELSE [ok |-> TRUE, val |-> NaN]
    IN  [err |-> IF d.ok THEN "" ELSE "ValueError",
         obj |-> [designation |-> PyStr(designation),
                  name |-> IF ~PyEq(name, EmptyStr) THEN Some(PyStr(name)) ELSE PyNone,
                  diameter |-> d.val,
                  hazardous |-> PyEq(hazardous, PyS(<<"Y">>)) \/ PyEq(hazardous, PyS(<<"y">>)),
                  approaches |-> approaches,
                  _fullname |-> PyNone]]

\* A diameter that does not parse taken as unknown instead of raising.
NearEarthObject_init_lenient(designation, name, diameter, hazardous, approaches) ==
    LET d == IF ~PyEq(diameter, EmptyStr) THEN PyFloat(diameter)
             ELSE [ok |-> TRUE, val |-> NaN]
    IN  [err |-> "",
         obj |-> [designation |-> PyStr(designation),
                  name |-> IF ~PyEq(name, EmptyStr) THEN Some(PyStr(name)) ELSE PyNone,
                  diameter |-> d.val,
                  hazardous |-> IF PyEq(hazardous, PyS(<<"Y">>)) THEN TRUE ELSE FALSE,
                  approaches |-> approaches,
                  _fullname |-> PyNone]]

\* NearEarthObject.__init__: the instance built from the four raw fields, with
\* `approaches` the list object created for it; err is the exception raised.
NearEarthObject_init(designation, name, diameter, hazardous, approaches) ==
    LET d == IF ~PyEq(diameter, EmptyStr) THEN PyFloat(diameter)
             ELSE [ok |-> TRUE, val |-> NaN]
    IN  [err |-> IF d.ok THEN "" ELSE "ValueError",
         obj |-> [designation |-> PyStr(designation),
                  name |-> IF ~PyEq(name, EmptyStr) THEN Some(PyStr(name)) ELSE PyNone,
                  diameter |-> d.val,
                  hazardous |-> IF PyEq(hazardous, PyS(<<"Y">>)) THEN TRUE ELSE FALSE,
                  approaches |-> approaches,
                  _fullname |-> PyNone]]

\* Faulty variants of NearEarthObject.fullname.
\* The name formatted without the test for None.
fullname_noNoneTest(self) ==
    LET computed == self.designation \o " (" \o ReprOpt(self.name) \o ")"
        after == [self EXCEPT !._fullname = Some(computed)]
    IN  [obj |-> after, val |-> after._fullname.v]

\* The value computed by the first read kept and returned by the later ones.
fullname_cached(self) ==
    LET computed == IF self.name.some
                    THEN self.designation \o " (" \o self.name.v \o ")"
                    ELSE self.designation
        after == IF self._fullname.some THEN self
                 ELSE [self EXCEPT !._fullname = Some(computed)]
    IN  [obj |-> after, val |-> after._fullname.v]

\* NearEarthObject.fullname: the value returned, and the instance after the read
\* (the getter assigns self._fullname).
fullname(self) ==
    LET computed == IF self.name.some
                    THEN self.designation \o " (" \o self.name.v \o ")"
                    ELSE self.designation
        after == [self EXCEPT !._fullname = Some(computed)]
    IN  [obj |-> after, val |-> after._fullname.v]

\* NearEarthObject.__str__
NearEarthObject_str(self) ==
    LET fn == fullname(self)
    IN  [obj |-> fn.obj,
         val |-> "The NearEarthObject '" \o fn.val \o "' has "
                   \o (IF FloatEq(self.diameter, NaN) THEN "an unknown diameter"
                       ELSE "a diameter of " \o FormatFixed(self.diameter, 3))
                   \o " km and " \o (IF self.hazardous THEN "is" ELSE "is not")
                   \o " potentially hazardous."]

\* NearEarthObject.__repr__
NearEarthObject_repr(self) ==
    "NearEarthObject(designation=" \o ReprStr(self.designation)
      \o ", name=" \o ReprOpt(self.name)
      \o ", diameter=" \o FormatFixed(self.diameter, 3)
      \o ", hazardous=" \o ReprBool(self.hazardous) \o ")"

----------------------------------------------------------------------------
(* class CloseApproach *)

\* The value of CloseApproach.neo that stands for Python's None.
NoNeo == 0

\* Faulty variant of CloseApproach.__init__: the reference to the object set by
\* the constructor itself, to the first NearEarthObject.
CloseApproach_init_prelinked(designation, time, distance, velocity) ==
    LET t == cd_to_datetime(time)
        d == PyFloat(distance)
        v == PyFloat(velocity)
    IN  [err |-> IF t.ok /\ d.ok /\ v.ok THEN "" ELSE "ValueError",
         obj |-> [_designation |-> PyStr(designation),
                  time |-> t.val,
                  distance |-> d.val,
                  velocity |-> v.val,
                  neo |-> 1]]

\* CloseApproach.__init__
CloseApproach_init(designation, time, distance, velocity) ==
    LET t == cd_to_datetime(time)
        d == PyFloat(distance)
        v == PyFloat(velocity)
    IN  [err |-> IF t.ok /\ d.ok /\ v.ok THEN "" ELSE "ValueError",
         obj |-> [_designation |-> PyStr(designation),
                  time |-> t.val,
                  distance |-> d.val,
                  velocity |-> v.val,
                  neo |-> NoNeo]]

\* CloseApproach.time_str
time_str(self) == datetime_to_str(self.time)

\* Faulty variant of CloseApproach.__str__: self.neo.fullname read without the
\* test for None, an AttributeError on an unlinked CloseApproach.
CloseApproach_str_noNoneTest(self, heap) ==
    LET linked == self.neo # NoNeo
        fn == IF linked THEN fullname(heap[self.neo]) ELSE [obj |-> PyNone, val |-> ""]
    IN  [heap |-> IF linked THEN [heap EXCEPT ![self.neo] = fn.obj] ELSE heap,
         err |-> IF linked THEN "" ELSE "AttributeError",
         val |-> "At " \o time_str(self) \o ", '" \o fn.val
                   \o "' approaches Earth at a distance of "
                   \o FormatFixed(self.distance, 2) \o " au and a velocity of "
                   \o FormatFixed(self.velocity, 2) \o " km/s."]

\* CloseApproach.__str__ given the heap of NearEarthObjects: the string, and the
\* linked NearEarthObject after its fullname was read.
CloseApproach_str(self, heap) ==
    LET linked == self.neo # NoNeo
        fn == IF linked THEN fullname(heap[self.neo]) ELSE [obj |-> PyNone, val |-> "None"]
    IN  [heap |-> IF linked THEN [heap EXCEPT ![self.neo] = fn.obj] ELSE heap,
         err |-> "",
         val |-> "At " \o time_str(self) \o ", '" \o fn.val
                   \o "' approaches Earth at a distance of "
                   \o FormatFixed(self.distance, 2) \o " au and a velocity of "
                   \o FormatFixed(self.velocity, 2) \o " km/s."]

\* CloseApproach.__repr__
CloseApproach_repr(self, heap) ==
    "CloseApproach(time=" \o ReprStr(time_str(self))
      \o ", distance=" \o FormatFixed(self.distance, 2)
      \o ", velocity=" \o FormatFixed(self.velocity, 2)
      \o ", neo=" \o (IF self.neo # NoNeo THEN NearEarthObject_repr(heap[self.neo])
                      ELSE "None") \o ")"

----------------------------------------------------------------------------
(* Raw fields of the records the loader reads. *)

S_empty == PyS(<<>>)
S_blank == PyS(<<" ">>)
S_433 == PyS(<<"4", "3", "3">>)
I_433 == PyI(<<"4", "3", "3">>)
S_2020AB == PyS(<<"2", "0", "2", "0", " ", "A", "B">>)
S_Eros == PyS(<<"E", "r", "o", "s">>)
S_Y == PyS(<<"Y">>)
S_y == PyS(<<"y">>)
S_N == PyS(<<"N">>)
S_16_84 == PyS(<<"1", "6", ".", "8", "4">>)
S_p5 == PyS(<<" ", ".", "5", " ">>)
S_x == PyS(<<"x">>)
S_dot == PyS(<<".">>)
S_1_2_3 == PyS(<<"1", ".", "2", ".", "3">>)
S_0_15 == PyS(<<"0", ".", "1", "5">>)
S_0_026 == PyS(<<"0", ".", "0", "2", "6">>)
S_5_5 == PyS(<<"5", ".", "5">>)
S_12_34 == PyS(<<"1", "2", ".", "3", "4">>)
T_1900 == PyS(<<"1", "9", "0", "0", "-", "J", "a", "n", "-", "0", "1", " ",
                "1", "2", ":", "0", "0">>)
T_2020 == PyS(<<"2", "0", "2", "0", "-", "D", "e", "c", "-", "3", "1", " ",
                "2", "3", ":", "4", "5">>)
T_badMonth == PyS(<<"2", "0", "2", "0", "-", "1", "2", "-", "3", "1", " ", " ",
                    "2", "3", ":", "4", "5">>)

\* Every combination of these is given to the constructors under SpecCtor.
RawDesignations == {S_433, S_2020AB, S_empty, I_433}
RawApproachDesignations == {S_433, I_433}
RawNames == {S_empty, S_Eros}
RawDiameters == {S_empty, S_16_84, S_p5, S_blank, S_x, S_1_2_3}
RawFlags == {S_Y, S_N, S_empty, S_y}
RawTimes == {T_1900, T_2020, T_badMonth}
RawDistances == {S_0_15, S_0_026, S_empty, S_x}
RawVelocities == {S_5_5, S_12_34, S_dot}

NeoFields == RawDesignations \X RawNames \X RawDiameters \X RawFlags
CaFields == RawApproachDesignations \X RawTimes \X RawDistances \X RawVelocities

\* The records of a small data set, loaded and linked under Spec.
NeoRows == {<<S_433, S_Eros, S_16_84, S_N>>,
            <<S_2020AB, S_empty, S_empty, S_Y>>,
            <<S_433, S_empty, S_x, S_Y>>}
CaRows == {<<S_433, T_1900, S_0_15, S_5_5>>,
           <<S_433, T_1900, S_empty, S_5_5>>}

----------------------------------------------------------------------------
(* The state machine. *)

NoCall == [cls |-> "", args |-> <<>>]

Init ==
    /\ neos = <<>>
    /\ lists = <<>>
    /\ cas = <<>>
    /\ raised = ""
    /\ returned = ""
    /\ called = NoCall
    /\ neoArgs = <<>>
    /\ appended = <<>>

\* NearEarthObject(designation, name, diameter, hazardous) called by the loader.
NewNearEarthObject(a) ==
    LET list == NewList(lists)
        r == NearEarthObject_init(a[1], a[2], a[3], a[4], list)
    IN  /\ raised' = r.err
        /\ returned' = ""
        /\ called' = [cls |-> "NearEarthObject", args |-> a]
        /\ IF r.err = ""
           THEN /\ neos' = Append(neos, r.obj)
                /\ lists' = IF list > Len(lists) THEN Append(lists, <<>>) ELSE lists
                /\ neoArgs' = Append(neoArgs, a)
                /\ appended' = Append(appended, <<>>)
           ELSE UNCHANGED <<neos, lists, neoArgs, appended>>
        /\ UNCHANGED cas

\* CloseApproach(designation, time, distance, velocity) called by the loader.
NewCloseApproach(a) ==
    LET r == CloseApproach_init(a[1], a[2], a[3], a[4])
    IN  /\ raised' = r.err
        /\ returned' = ""
        /\ called' = [cls |-> "CloseApproach", args |-> a]
        /\ cas' = IF r.err = "" THEN Append(cas, r.obj) ELSE cas
        /\ UNCHANGED <<neos, lists, neoArgs, appended>>

\* The linking step of the database: neo.approaches.append(ca); ca.neo = neo,
\* performed once for each CloseApproach.
Link(c, n) ==
    /\ cas[c].neo = NoNeo
    /\ lists' = [lists EXCEPT ![neos[n].approaches] = Append(@, c)]
    /\ cas' = [cas EXCEPT ![c].neo = n]
    /\ appended' = [appended EXCEPT ![n] = Append(@, c)]
    /\ raised' = ""
    /\ returned' = ""
    /\ called' = NoCall
    /\ UNCHANGED <<neos, neoArgs>>

\* An assignment neo.name = value by a caller.
SetName(n, value) ==
    /\ neos[n].name # value
    /\ neos' = [neos EXCEPT ![n].name = value]
    /\ raised' = ""
    /\ returned' = ""
    /\ called' = NoCall
    /\ UNCHANGED <<lists, cas, neoArgs, appended>>

\* neo.fullname
ReadFullname(n) ==
    LET r == fullname(neos[n])
    IN  /\ neos' = [neos EXCEPT ![n] = r.obj]
        /\ raised' = ""
        /\ returned' = r.val
        /\ called' = NoCall
        /\ UNCHANGED <<lists, cas, neoArgs, appended>>

\* str(neo)
StrNeo(n) ==
    LET r == NearEarthObject_str(neos[n])
    IN  /\ neos' = [neos EXCEPT ![n] = r.obj]
        /\ raised' = ""
        /\ returned' = r.val
        /\ called' = NoCall
        /\ UNCHANGED <<lists, cas, neoArgs, appended>>

\* repr(neo)
ReprNeo(n) ==
    /\ returned' = NearEarthObject_repr(neos[n])
    /\ raised' = ""
    /\ called' = NoCall
    /\ UNCHANGED <<neos, lists, cas, neoArgs, appended>>

\* ca.time_str
ReadTimeStr(c) ==
    /\ returned' = time_str(cas[c])
    /\ raised' = ""
    /\ called' = NoCall
    /\ UNCHANGED <<neos, lists, cas, neoArgs, appended>>

\* str(ca)
StrCa(c) ==
    LET r == CloseApproach_str(cas[c], neos)
    IN  /\ raised' = r.err
        /\ returned' = IF r.err = "" THEN r.val ELSE ""
        /\ called' = NoCall
        /\ neos' = IF r.err = "" THEN r.heap ELSE neos
        /\ UNCHANGED <<lists, cas, neoArgs, appended>>

\* repr(ca)
ReprCa(c) ==
    /\ returned' = CloseApproach_repr(cas[c], neos)
    /\ raised' = ""
    /\ called' = NoCall
    /\ UNCHANGED <<neos, lists, cas, neoArgs, appended>>

NewNames == {PyNone, Some("Ceres")}

LoadNeo == \E a \in NeoRows : Len(neos) < MaxNeos /\ NewNearEarthObject(a)
LoadCa == \E a \in CaRows : Len(cas) < MaxCas /\ NewCloseApproach(a)
LinkStep == \E c \in DOMAIN cas : \E n \in DOMAIN neos : Link(c, n)
Rename == \E n \in DOMAIN neos : \E v \in NewNames : SetName(n, v)
GetFullname == \E n \in DOMAIN neos : ReadFullname(n)
DescribeNeo == \E n \in DOMAIN neos : StrNeo(n)
RepresentNeo == \E n \in DOMAIN neos : ReprNeo(n)
GetTimeStr == \E c \in DOMAIN cas : ReadTimeStr(c)
DescribeCa == \E c \in DOMAIN cas : StrCa(c)
RepresentCa == \E c \in DOMAIN cas : ReprCa(c)

Reads ==
    \/ GetFullname
    \/ DescribeNeo
    \/ RepresentNeo
    \/ GetTimeStr
    \/ DescribeCa
    \/ RepresentCa

\* Loading and linking a data set, and reading the objects.
Next ==
    \/ LoadNeo
    \/ LoadCa
    \/ LinkStep
    \/ Reads

Spec == Init /\ [][Next]_vars

\* NearEarthObjects whose callers also rename them, and read their fullname
\* directly or through str().
NextRename ==
    \/ LoadNeo
    \/ Rename
    \/ GetFullname
    \/ DescribeNeo

SpecRename == Init /\ [][NextRename]_vars

\* The constructors on every combination of raw fields.
CtorNeo ==
    \E a \in NeoFields : cas = <<>> /\ Len(neos) < MaxCtor /\ NewNearEarthObject(a)
CtorCa ==
    \E a \in CaFields : neos = <<>> /\ Len(cas) < MaxCtor /\ NewCloseApproach(a)

NextCtor ==
    \/ CtorNeo
    \/ CtorCa
    \/ Reads

SpecCtor == Init /\ [][NextCtor]_vars

----------------------------------------------------------------------------
(* Properties. *)

\* What the raw fields of NearEarthObject n say its parts must be.
IsEmptyStr(x) == x.t = "str" /\ x.v = <<>>
RawText(x) == Join(x.v)
ExpectedFullname(designation, name) ==
    IF name.some THEN designation \o " (" \o name.v \o ")" ELSE designation
HazardPhrase(flag) == IF flag.t = "str" /\ flag.v = <<"Y">> THEN "is" ELSE "is not"

RECURSIVE Count(_, _)
Count(x, seq) ==
    IF seq = <<>> THEN 0
    ELSE (IF Head(seq) = x THEN 1 ELSE 0) + Count(x, Tail(seq))

\* The raw numeric fields of the inputs that are no float literal.
NotNumeric == {S_blank, S_x, S_dot, S_1_2_3}

\* C1: a NearEarthObject constructed with "" as its raw diameter stores the
\* not-a-number value, and str() of it says "an unknown diameter".
C1_UnknownDiameterReported ==
    \A n \in DOMAIN neos :
        IsEmptyStr(neoArgs[n][3]) =>
            /\ neos[n].diameter.nan
            /\ NearEarthObject_str(neos[n]).val =
                   "The NearEarthObject '"
                     \o ExpectedFullname(RawText(neoArgs[n][1]), neos[n].name)
                     \o "' has an unknown diameter km and "
                     \o HazardPhrase(neoArgs[n][4]) \o " potentially hazardous."

\* C2 as stated: the designation of every constructed NearEarthObject is a
\* non-empty string, whatever raw designation it was constructed from.
C2_DesignationNeverEmpty ==
    \A n \in DOMAIN neos : neos[n].designation # ""

\* C2 as amended: the designation of every NearEarthObject is, in every state,
\* the text of the raw designation it was constructed from; it is empty exactly
\* when that raw designation is the empty string.
C2_DesignationIsRawText ==
    \A n \in DOMAIN neos :
        /\ neos[n].designation = RawText(neoArgs[n][1])
        /\ neos[n].designation = "" <=> IsEmptyStr(neoArgs[n][1])

\* An object constructed from the empty designation, after a read of it.
C2_Witness ==
    \E n \in DOMAIN neos :
        /\ IsEmptyStr(neoArgs[n][1])
        /\ neos[n].designation = ""
        /\ neos[n]._fullname.some

\* C3: hazardous is true exactly when the raw flag is the string "Y".
C3_HazardousIffY ==
    \A n \in DOMAIN neos :
        neos[n].hazardous <=> (neoArgs[n][4].t = "str" /\ neoArgs[n][4].v = <<"Y">>)

\* An object constructed with the lower-case flag, not hazardous.
C3_Witness ==
    \E n \in DOMAIN neos : neoArgs[n][4] = S_y /\ ~neos[n].hazardous

\* C4: name is None exactly when the raw name is the empty string; fullname is
\* the designation alone then, and "{designation} ({name})" otherwise.
C4_NameAndFullname ==
    \A n \in DOMAIN neos :
        /\ ~neos[n].name.some <=> IsEmptyStr(neoArgs[n][2])
        /\ fullname(neos[n]).val =
               IF IsEmptyStr(neoArgs[n][2]) THEN RawText(neoArgs[n][1])
               ELSE RawText(neoArgs[n][1]) \o " (" \o RawText(neoArgs[n][2]) \o ")"

\* NearEarthObject("433", "Eros", ...) after its fullname was read.
C4_Witness ==
    \E n \in DOMAIN neos :
        /\ neoArgs[n][1] = S_433 /\ neoArgs[n][2] = S_Eros
        /\ returned = "433 (Eros)"

\* C5: a CloseApproach is in the approaches of the NearEarthObject its neo
\* refers to exactly once, and in no other approaches; its neo is the object
\* the linker appended it to, with the same fullname.
C5_LinkedExactlyOnce ==
    \A c \in DOMAIN cas :
        /\ cas[c].neo \in {NoNeo} \cup DOMAIN neos
        /\ \A n \in DOMAIN neos :
               /\ Count(c, lists[neos[n].approaches]) = (IF cas[c].neo = n THEN 1 ELSE 0)
               /\ Count(c, appended[n]) = 1 =>
                      /\ cas[c].neo = n
                      /\ fullname(neos[cas[c].neo]).val = fullname(neos[n]).val

\* Two CloseApproaches linked to one NearEarthObject, and a description read.
C5_Witness ==
    \E n \in DOMAIN neos :
        /\ Len(lists[neos[n].approaches]) = 2
        /\ \A c \in DOMAIN cas : cas[c].neo = n
        /\ returned # ""

\* C6: str() and repr() of a CloseApproach never raise; str() shows None for
\* the name while neo is None and the fullname of the linked object after.
C6_UnlinkedDescription ==
    /\ raised # "AttributeError"
    /\ \A c \in DOMAIN cas :
           LET r == CloseApproach_str(cas[c], neos)
               shown == IF cas[c].neo = NoNeo THEN "None"
                        ELSE ExpectedFullname(neos[cas[c].neo].designation,
                                              neos[cas[c].neo].name)
           IN  /\ r.err = ""
               /\ r.val = "At 1900-01-01 12:00, '" \o shown
                            \o "' approaches Earth at a distance of 0.15 au and"
                            \o " a velocity of 5.50 km/s."
               /\ cas[c].neo = NoNeo =>
                      CloseApproach_repr(cas[c], neos) =
                          "CloseApproach(time='1900-01-01 12:00', distance=0.15, "
                            \o "velocity=5.50, neo=None)"

\* The description of an unlinked CloseApproach was read.
C6_Witness ==
    /\ \E c \in DOMAIN cas : cas[c].neo = NoNeo
    /\ raised = ""
    /\ returned = "At 1900-01-01 12:00, 'None' approaches Earth at a distance of"
                    \o " 0.15 au and a velocity of 5.50 km/s."

\* C7: a constructor call raises and adds no object when a non-empty diameter,
\* or a distance or velocity, is no float literal; an empty name or diameter
\* raises nothing and gives None and the not-a-number value.
C7_MalformedNumericRaises ==
    [][/\ called'.cls = "NearEarthObject" =>
              IF called'.args[3] \in NotNumeric
              THEN raised' = "ValueError" /\ neos' = neos /\ cas' = cas
              ELSE /\ raised' = ""
                   /\ Len(neos') = Len(neos) + 1
                   /\ IsEmptyStr(called'.args[3]) => neos'[Len(neos')].diameter.nan
                   /\ IsEmptyStr(called'.args[2]) => neos'[Len(neos')].name = PyNone
       /\ (/\ called'.cls = "CloseApproach"
           /\ \/ IsEmptyStr(called'.args[3])
              \/ {called'.args[3], called'.args[4]} \cap NotNumeric # {})
              => raised' = "ValueError" /\ neos' = neos /\ cas' = cas
      ]_vars

\* A constructor call has raised, and there is no object.
C7_Witness ==
    /\ called.cls = "NearEarthObject"
    /\ called.args[3] = S_1_2_3
    /\ raised = "ValueError"
    /\ neos = <<>>

\* C8: a read of fullname or of time_str changes no object.
C8_ReadsChangeNothing ==
    [][(GetFullname \/ GetTimeStr) => UNCHANGED <<neos, lists, cas>>]_vars

\* C9: a read of fullname returns the name and designation the object has at
\* the time of the read, whatever was read or assigned before.
C9_FullnameIsCurrent ==
    [][\A n \in DOMAIN neos :
           ReadFullname(n) =>
               returned' = ExpectedFullname(neos[n].designation, neos[n].name)]_vars

\* An object read, renamed and read again.
C9_Witness ==
    \E n \in DOMAIN neos :
        /\ neoArgs[n][2] = S_Eros
        /\ neos[n].name = Some("Ceres")
        /\ returned = "433 (Ceres)"

\* C10: the approaches of each NearEarthObject are the CloseApproaches the
\* linker appended to it, in that order (none at construction), and a
\* CloseApproach has neo = None until the linker appends it.
C10_ApproachesAreAppended ==
    /\ \A n \in DOMAIN neos : lists[neos[n].approaches] = appended[n]
    /\ \A c \in DOMAIN cas :
           cas[c].neo = NoNeo <=> \A n \in DOMAIN neos : Count(c, appended[n]) = 0

\* The second CloseApproach appended before the first, another object untouched.
C10_Witness ==
    \E n, m \in DOMAIN neos :
        /\ n # m
        /\ lists[neos[n].approaches] = <<2, 1>>
        /\ lists[neos[m].approaches] = <<>>

====
